---- MODULE Spec2Model ----
(***************************************************************************)
(* The Tauri command bridge of templates/tauri-cross-platform              *)
(* (src-tauri/src/main.rs): four registered commands, a setup hook, and    *)
(* the filesystem the two file commands act on.                            *)
(*                                                                         *)
(* greet and get_system_info are plain fns: the IPC handler runs them on   *)
(* the dispatcher (main) thread.  read_file and write_file are async fns:  *)
(* the IPC handler spawns each invocation on the async runtime's worker    *)
(* pool, so their system calls interleave with everything else.            *)
(*                                                                         *)
(* std::fs::read_to_string is one step (open + read + UTF-8 validation).   *)
(* std::fs::write is File::create (O_WRONLY|O_CREAT|O_TRUNC) followed by   *)
(* write_all from offset 0 of the new descriptor: two steps.               *)
(***************************************************************************)
EXTENDS Naturals, Sequences, FiniteSets, TLC

VARIABLES
    phase,      \* "new" | "built" | "hooked" | "running" | "stopped"
    registry,   \* the invoke handler's table: a sequence of [name, handler]
    log,        \* lines printed on stdout
    fs,         \* the filesystem: Paths -> node
    tasks,      \* invocation slots of the boundary: Tasks -> invocation
                \* (raced, changed: history of a write_file that holds its
                \* file open: raced by another writer, has changed the file)
    dispatcher, \* "free", or the invocation the dispatcher thread is running
    lastWrite   \* history: per path, the last write_file that finished on it
                \* with no later write activity on that path (or None)

vars == <<phase, registry, log, fs, tasks, dispatcher, lastWrite>>

----------------------------------------------------------------------------
(* Bounds *)

MaxLen == 1                   \* longest content, in bytes

Tasks == {"t1", "t2"}         \* invocations the boundary has outstanding

----------------------------------------------------------------------------
(* Strings and bytes *)

AsciiBytes == {65}            \* "A"
BadBytes == {255}             \* 0xFF never occurs in UTF-8

\* A Rust String: a valid UTF-8 byte sequence.
Strings == UNION {[1..n -> AsciiBytes] : n \in 0..MaxLen}

\* What the files hold when the program starts: some text, or bytes that are
\* not UTF-8.
InitData == {<<a>> : a \in AsciiBytes} \cup {<<b>> : b \in BadBytes}

Utf8Valid(d) == \A i \in 1..Len(d) : d[i] \in AsciiBytes

Names == {"", "World"}        \* arguments of greet

----------------------------------------------------------------------------
(* The filesystem *)

D  == <<"d">>
DF == <<"d", "f">>
G  == <<"g">>
Root == <<>>

Paths == {DF, G}              \* the paths the frontend passes
NodePaths == {D, DF, G}       \* the paths that may exist

Parent(p) == SubSeq(p, 1, Len(p) - 1)

Absent == [kind |-> "absent"]
Dir == [kind |-> "dir"]
File(d, r) == [kind |-> "file", data |-> d, readable |-> r]

KindAt(f, p) == IF p = Root THEN "dir" ELSE f[p].kind

\* What a path may be when the program starts.  d: nothing, a directory or
\* a file; d/f: nothing, a text file, a file that is not UTF-8, or a file the
\* process may write but not read; g: nothing, a directory or a text file.
Nodes(p) ==
    CASE p = D  -> {Absent, Dir} \cup {File(<<a>>, TRUE) : a \in AsciiBytes}
      [] p = DF -> {Absent} \cup {File(d, TRUE) : d \in InitData}
                            \cup {File(<<a>>, FALSE) : a \in AsciiBytes}
      [] p = G  -> {Absent, Dir} \cup {File(<<a>>, TRUE) : a \in AsciiBytes}

AllNodes == UNION {Nodes(p) : p \in NodePaths}

\* A node exists only inside an existing directory.
WellFormed(f) ==
    \A p \in NodePaths : f[p] # Absent => KindAt(f, Parent(p)) = "dir"

InitFs ==
    {f \in [NodePaths -> AllNodes] :
        WellFormed(f) /\ \A p \in NodePaths : f[p] \in Nodes(p)}

----------------------------------------------------------------------------
(* Results *)

\* CommandResult: what a handler returns (Ok / Err of Result<T, String>; a
\* plain return value is a Success).
Success(v) == [tag |-> "Success", value |-> v]
Failure(m) == [tag |-> "Failure", message |-> m]

NoResult == [tag |-> "none"]

Unit == "()"

\* std::io::Error as `{}` prints it (Linux texts).
ErrorDetail(kind) ==
    CASE kind = "NotFound"         -> "No such file or directory (os error 2)"
      [] kind = "PermissionDenied" -> "Permission denied (os error 13)"
      [] kind = "NotADirectory"    -> "Not a directory (os error 20)"
      [] kind = "IsADirectory"     -> "Is a directory (os error 21)"
      [] kind = "StorageFull"      -> "No space left on device (os error 28)"
      [] kind = "InvalidData"      -> "stream did not contain valid UTF-8"

ErrorKinds == {"NotFound", "PermissionDenied", "NotADirectory", "IsADirectory",
               "StorageFull", "InvalidData"}

\* The two message prefixes of main.rs lines 26 and 32 are Japanese text
\* ("file read error: ", "file write error: "); strings of this module are
\* ASCII, so they are written here in romaji.
ReadErrPrefix  == "fairu yomikomi era-: "
WriteErrPrefix == "fairu kakikomi era-: "

----------------------------------------------------------------------------
(* The handlers *)

\* Mutant: another greeting text.
greetShort(name) == "Hello, " \o name \o "!"

greet(name) == "Hello, " \o name \o "! You've been greeted from Rust!"

\* The three values are fixed when the program is built.
get_system_info ==
    [platform     |-> "std::env::consts::OS",
     architecture |-> "std::env::consts::ARCH",
     version      |-> "CARGO_PKG_VERSION"]

IoOk(v)  == [ok |-> TRUE, value |-> v]
IoErr(k) == [ok |-> FALSE, error |-> k]

\* Path resolution up to the last component.
LookupParent(f, p) ==
    CASE KindAt(f, Parent(p)) = "absent" -> "NotFound"
      [] KindAt(f, Parent(p)) = "file"   -> "NotADirectory"
      [] OTHER                           -> "none"

\* Mutant: a missing file reads as the empty string (unwrap_or_default).
ReadToStringOrEmpty(f, p) ==
    IF LookupParent(f, p) # "none" \/ f[p].kind = "absent" THEN IoOk(<<>>)
    ELSE IF f[p].kind = "dir" THEN IoErr("IsADirectory")
    ELSE IF ~f[p].readable THEN IoErr("PermissionDenied")
    ELSE IF ~Utf8Valid(f[p].data) THEN IoErr("InvalidData")
    ELSE IoOk(f[p].data)

\* std::fs::read_to_string(&path)
ReadToString(f, p) ==
    IF LookupParent(f, p) # "none" THEN IoErr(LookupParent(f, p))
    ELSE CASE f[p].kind = "absent" -> IoErr("NotFound")
           [] f[p].kind = "dir"    -> IoErr("IsADirectory")
           [] OTHER ->
                IF ~f[p].readable THEN IoErr("PermissionDenied")
                ELSE IF ~Utf8Valid(f[p].data) THEN IoErr("InvalidData")
                ELSE IoOk(f[p].data)

\* Mutant: .unwrap() in place of .map_err(...): an I/O error panics.
MapErrUnwrap(r, prefix) ==
    IF r.ok THEN Success(r.value) ELSE [tag |-> "Panic"]

\* .map_err(|e| format!("<prefix>{}", e))
MapErr(r, prefix) ==
    IF r.ok THEN Success(r.value) ELSE Failure(prefix \o ErrorDetail(r.error))

read_file(f, p) == MapErr(ReadToString(f, p), ReadErrPrefix)

\* Mutant: the missing parent directory is not an error (it gets created).
CreateErrorIgnoreParent(f, p) ==
    IF LookupParent(f, p) = "NotADirectory" THEN "NotADirectory"
    ELSE IF f[p].kind = "dir" THEN "IsADirectory"
    ELSE "none"

\* File::create(path), the first half of std::fs::write: the error, or "none".
CreateError(f, p) ==
    IF LookupParent(f, p) # "none" THEN LookupParent(f, p)
    ELSE IF f[p].kind = "dir" THEN "IsADirectory"
    ELSE "none"

\* Mutant: the file is opened without truncation.
CreatedNoTruncate(f, p) ==
    IF f[p].kind = "file" THEN f[p] ELSE File(<<>>, TRUE)

\* The node File::create leaves at p: created empty, or truncated.
Created(f, p) ==
    File(<<>>, IF f[p].kind = "file" THEN f[p].readable ELSE TRUE)

\* Mutant: write in place of write_all, the last byte is not written.
OverlayPartial(c, d) ==
    IF c = <<>> THEN d
    ELSE SubSeq(c, 1, Len(c) - 1) \o SubSeq(d, Len(c), Len(d))

\* write(2) of bytes c at offset 0 of a file holding d.
Overlay(c, d) == c \o SubSeq(d, Len(c) + 1, Len(d))

Prefix(c, k) == SubSeq(c, 1, k)

----------------------------------------------------------------------------
(* The registry *)

\* Mutant: a fifth command is registered.
HandlerListExtra ==
    << [name |-> "greet",           handler |-> "greet"],
       [name |-> "get_system_info", handler |-> "get_system_info"],
       [name |-> "read_file",       handler |-> "read_file"],
       [name |-> "write_file",      handler |-> "write_file"],
       [name |-> "delete_file",     handler |-> "get_system_info"] >>

\* tauri::generate_handler![greet, get_system_info, read_file, write_file]
HandlerList ==
    << [name |-> "greet",           handler |-> "greet"],
       [name |-> "get_system_info", handler |-> "get_system_info"],
       [name |-> "read_file",       handler |-> "read_file"],
       [name |-> "write_file",      handler |-> "write_file"] >>

NoHandler == "none"

\* The first entry of the table with this name.
Lookup(reg, name) ==
    IF \E i \in 1..Len(reg) : reg[i].name = name
    THEN reg[CHOOSE i \in 1..Len(reg) :
                /\ reg[i].name = name
                /\ \A j \in 1..(i - 1) : reg[j].name # name].handler
    ELSE NoHandler

\* Mutant: read_file is declared a plain fn.
IsAsyncWriteOnly(h) == h \in {"write_file"}

\* `async fn` handlers are spawned on the async runtime; plain `fn` handlers
\* run on the dispatcher thread.
IsAsync(h) == h \in {"read_file", "write_file"}

\* Names the boundary may send: the registered ones and one other.
CommandNames ==
    {"greet", "get_system_info", "read_file", "write_file", "delete_file"}

GreetArgs == {[name |-> n] : n \in Names}
NoArgs    == {[none |-> TRUE]}
ReadArgs  == {[path |-> p] : p \in Paths}
WriteArgs == {[path |-> p, content |-> c] : p \in Paths, c \in Strings}

\* The arguments the frontend sends with a command name.
ArgsOf(name) ==
    CASE name = "greet"      -> GreetArgs
      [] name = "read_file"  -> ReadArgs
      [] name = "write_file" -> WriteArgs
      [] OTHER               -> NoArgs

----------------------------------------------------------------------------
(* Invocations *)

Idle ==
    [pc |-> "idle", name |-> "none", cmd |-> NoHandler, args |-> [none |-> TRUE],
     result |-> NoResult, raced |-> FALSE, changed |-> FALSE]

\* The error the invoke handler gives for a name with no entry: not a
\* CommandResult of any handler.  (On the wire it is a rejection, like a
\* handler's Err: the payload tells them apart.)
NotFound(name) ==
    [tag |-> "CommandNotFound", message |-> "command " \o name \o " not found"]

NoWrite == [seen |-> FALSE, content |-> <<>>, ok |-> FALSE, raced |-> FALSE]
Wrote(c, ok, raced) == [seen |-> TRUE, content |-> c, ok |-> ok, raced |-> raced]

InFlight(t) == tasks[t].pc \in {"pending", "opened"}

\* The dispatcher thread after invocation t has returned.
Release(t) == IF dispatcher = t THEN "free" ELSE dispatcher

\* Invocation t returns result r (the history of its file I/O ends with it).
Finish(t, r) ==
    [tasks EXCEPT ![t].pc = "done", ![t].result = r,
                  ![t].raced = FALSE, ![t].changed = FALSE]

\* Write activity on path p by invocation t: every other invocation that
\* holds p open has been raced.
Race(ts, t, p) ==
    [u \in Tasks |->
        IF u # t /\ ts[u].pc = "opened" /\ ts[u].args.path = p
        THEN [ts[u] EXCEPT !.raced = TRUE]
        ELSE ts[u]]

Init ==
    /\ phase = "new"
    /\ registry = <<>>
    /\ log = <<>>
    /\ fs \in InitFs
    /\ tasks = [t \in Tasks |-> Idle]
    /\ dispatcher = "free"
    /\ lastWrite = [p \in Paths |-> NoWrite]

\* tauri::Builder::default().invoke_handler(generate_handler![...])
BuildRegistry ==
    /\ phase = "new"
    /\ registry' = HandlerList
    /\ phase' = "built"
    /\ UNCHANGED <<log, fs, tasks, dispatcher, lastWrite>>

\* The .setup(|app| { println!(...); Ok(()) }) hook, called by run().
SetupHook ==
    /\ phase = "built"
    /\ log' = Append(log, "Tauri app is starting up...")
    /\ phase' = "hooked"
    /\ UNCHANGED <<registry, fs, tasks, dispatcher, lastWrite>>

\* Mutant: the boundary is served without waiting for the setup hook.
ServeEarly ==
    /\ phase \in {"built", "hooked"}
    /\ phase' = "running"
    /\ UNCHANGED <<registry, log, fs, tasks, dispatcher, lastWrite>>

\* run() enters the event loop: the boundary can now invoke commands.
Serve ==
    /\ phase = "hooked"
    /\ phase' = "running"
    /\ UNCHANGED <<registry, log, fs, tasks, dispatcher, lastWrite>>

\* run() returns Err: .expect(...) panics and the process ends.
StartupFail ==
    /\ phase \in {"built", "hooked"}
    /\ phase' = "stopped"
    /\ UNCHANGED <<registry, log, fs, tasks, dispatcher, lastWrite>>

\* The invoke handler, on the dispatcher thread: look the name up; an async
\* handler is spawned, a plain one is run by the dispatcher itself.
Dispatch(t, name, a) ==
    /\ phase = "running"
    /\ dispatcher = "free"
    /\ tasks[t].pc = "idle"
    /\ a \in ArgsOf(name)
    /\ LET h == Lookup(registry, name) IN
          IF h = NoHandler
          THEN /\ tasks' = [tasks EXCEPT ![t] =
                              [Idle EXCEPT !.pc = "done", !.name = name,
                                           !.result = NotFound(name)]]
               /\ UNCHANGED dispatcher
          ELSE /\ tasks' = [tasks EXCEPT ![t] =
                              [Idle EXCEPT !.pc = "pending", !.name = name,
                                           !.cmd = h, !.args = a]]
               /\ dispatcher' = IF IsAsync(h) THEN "free" ELSE t

\* Mutant: the entry of the invoked name is taken out of the table.
InvokeRemove(t, name, a) ==
    /\ Dispatch(t, name, a)
    /\ registry' = SelectSeq(registry, LAMBDA e : e.name # name)
    /\ UNCHANGED <<phase, log, fs, lastWrite>>

\* One invocation from the boundary.
Invoke(t, name, a) ==
    /\ Dispatch(t, name, a)
    /\ UNCHANGED <<phase, registry, log, fs, lastWrite>>

GreetStep(t) ==
    /\ tasks[t].pc = "pending"
    /\ tasks[t].cmd = "greet"
    /\ tasks' = Finish(t, Success(greet(tasks[t].args.name)))
    /\ dispatcher' = Release(t)
    /\ UNCHANGED <<phase, registry, log, fs, lastWrite>>

GetSystemInfoStep(t) ==
    /\ tasks[t].pc = "pending"
    /\ tasks[t].cmd = "get_system_info"
    /\ tasks' = Finish(t, Success(get_system_info))
    /\ dispatcher' = Release(t)
    /\ UNCHANGED <<phase, registry, log, fs, lastWrite>>

ReadFileStep(t) ==
    /\ tasks[t].pc = "pending"
    /\ tasks[t].cmd = "read_file"
    /\ tasks' = Finish(t, read_file(fs, tasks[t].args.path))
    /\ dispatcher' = Release(t)
    /\ UNCHANGED <<phase, registry, log, fs, lastWrite>>

\* write_file, first half: File::create fails, or creates/truncates the file.
WriteFileCreate(t) ==
    /\ tasks[t].pc = "pending"
    /\ tasks[t].cmd = "write_file"
    /\ LET p == tasks[t].args.path
           c == tasks[t].args.content
           e == CreateError(fs, p)
       IN IF e # "none"
          THEN /\ tasks' = Finish(t, MapErr(IoErr(e), WriteErrPrefix))
               /\ dispatcher' = Release(t)
               /\ lastWrite' = [lastWrite EXCEPT ![p] = Wrote(c, FALSE, FALSE)]
               /\ UNCHANGED fs
          ELSE /\ fs' = [fs EXCEPT ![p] = Created(fs, p)]
               /\ tasks' = Race([tasks EXCEPT ![t].pc = "opened",
                                               ![t].changed = (Created(fs, p) # fs[p])],
                                 t, p)
               /\ lastWrite' = [lastWrite EXCEPT ![p] = NoWrite]
               /\ UNCHANGED dispatcher
    /\ UNCHANGED <<phase, registry, log>>

\* write_file, second half: write_all puts every byte at offset 0.
WriteFileWriteAll(t) ==
    /\ tasks[t].pc = "opened"
    /\ LET p == tasks[t].args.path
           c == tasks[t].args.content
       IN /\ fs' = [fs EXCEPT ![p].data = Overlay(c, fs[p].data)]
          /\ tasks' = Race(Finish(t, MapErr(IoOk(Unit), WriteErrPrefix)), t, p)
          /\ lastWrite' = [lastWrite EXCEPT ![p] = Wrote(c, TRUE, tasks[t].raced)]
    /\ dispatcher' = Release(t)
    /\ UNCHANGED <<phase, registry, log>>

\* write_file, second half: write_all fails after k < Len(content) bytes
\* (the device is full).
WriteFileWriteFail(t, k) ==
    /\ tasks[t].pc = "opened"
    /\ k < Len(tasks[t].args.content)
    /\ LET p == tasks[t].args.path
           c == tasks[t].args.content
       IN /\ fs' = [fs EXCEPT ![p].data = Overlay(Prefix(c, k), fs[p].data)]
          /\ tasks' = Race(Finish(t, MapErr(IoErr("StorageFull"), WriteErrPrefix)),
                           t, p)
          /\ lastWrite' = [lastWrite EXCEPT ![p] = Wrote(c, FALSE, tasks[t].raced)]
    /\ dispatcher' = Release(t)
    /\ UNCHANGED <<phase, registry, log>>

\* The boundary takes the result of a finished invocation and discards it.
Consume(t) ==
    /\ tasks[t].pc = "done"
    /\ tasks' = [tasks EXCEPT ![t] = Idle]
    /\ UNCHANGED <<phase, registry, log, fs, dispatcher, lastWrite>>

Next ==
    \/ BuildRegistry
    \/ SetupHook
    \/ Serve
    \/ StartupFail
    \/ \E t \in Tasks, name \in CommandNames : \E a \in ArgsOf(name) : Invoke(t, name, a)
    \/ \E t \in Tasks : GreetStep(t)
    \/ \E t \in Tasks : GetSystemInfoStep(t)
    \/ \E t \in Tasks : ReadFileStep(t)
    \/ \E t \in Tasks : WriteFileCreate(t)
    \/ \E t \in Tasks : WriteFileWriteAll(t)
    \/ \E t \in Tasks, k \in 0..MaxLen : WriteFileWriteFail(t, k)
    \/ \E t \in Tasks : Consume(t)

Spec == Init /\ [][Next]_vars

\* The async runtime runs every spawned invocation, and each of its system
\* calls returns.
FairSpec ==
    /\ Spec
    /\ \A t \in Tasks :
          /\ WF_vars(ReadFileStep(t))
          /\ WF_vars(WriteFileCreate(t))
          /\ WF_vars(WriteFileWriteAll(t) \/ \E k \in 0..MaxLen : WriteFileWriteFail(t, k))

----------------------------------------------------------------------------
(* Properties *)

Done(t, name) == tasks[t].pc = "done" /\ tasks[t].name = name

FileCommands == {"read_file", "write_file"}

\* C9: for every string s, greet(s) is exactly "Hello, " + s +
\* "! You've been greeted from Rust!"; greet has no failure outcome.
C9_GreetFormat ==
    \A t \in Tasks :
        Done(t, "greet") =>
            /\ tasks[t].result.tag = "Success"
            /\ tasks[t].result.value
                 = "Hello, " \o tasks[t].args.name \o "! You've been greeted from Rust!"
            /\ tasks[t].args.name = "World" =>
                 tasks[t].result.value = "Hello, World! You've been greeted from Rust!"
            /\ tasks[t].args.name = "" =>
                 tasks[t].result.value = "Hello, ! You've been greeted from Rust!"

C9_Witness ==
    \E t \in Tasks :
        /\ Done(t, "greet")
        /\ tasks[t].args.name = "World"
        /\ tasks[t].result = Success("Hello, World! You've been greeted from Rust!")

\* C8: once built, the registry is the table of exactly the four entries
\* greet, get_system_info, read_file, write_file, each name once, whatever
\* invocations have been made; it is built once and never changes again.
C8_RegistryImmutable ==
    /\ [](phase # "new" =>
            /\ registry = << [name |-> "greet",           handler |-> "greet"],
                             [name |-> "get_system_info", handler |-> "get_system_info"],
                             [name |-> "read_file",       handler |-> "read_file"],
                             [name |-> "write_file",      handler |-> "write_file"] >>
            /\ \A i, j \in 1..Len(registry) :
                  registry[i].name = registry[j].name => i = j
            /\ {registry[i].name : i \in 1..Len(registry)}
                  = {"greet", "get_system_info", "read_file", "write_file"})
    /\ [][phase # "new" => registry' = registry]_vars

C8_Witness ==
    /\ phase = "running"
    /\ Len(registry) = 4
    /\ \E t \in Tasks : Done(t, "write_file") /\ tasks[t].result.tag = "Success"
    /\ \E t \in Tasks : Done(t, "delete_file")

\* C7: the startup hook has run to completion, exactly once, before any
\* invocation is served; a failed startup stops the process for good, with
\* no invocation ever served.
C7_HookBeforeServing ==
    /\ [](/\ Len(log) <= 1
          /\ phase \in {"hooked", "running"} => log = <<"Tauri app is starting up...">>
          /\ (\E t \in Tasks : tasks[t].pc # "idle") =>
                 phase = "running" /\ log = <<"Tauri app is starting up...">>
          /\ phase = "stopped" =>
                 dispatcher = "free" /\ \A t \in Tasks : tasks[t] = Idle)
    /\ [][phase = "stopped" => phase' = "stopped"]_vars

C7_Witness ==
    /\ phase = "running"
    /\ log = <<"Tauri app is starting up...">>
    /\ \E t \in Tasks : Done(t, "greet")

\* Every message a handler of the registry can fail with.
HandlerFailureMessages ==
    {prefix \o ErrorDetail(k) : prefix \in {ReadErrPrefix, WriteErrPrefix},
                                k \in ErrorKinds}

\* C4: invoking a name other than greet, get_system_info, read_file,
\* write_file yields the boundary's error, which is no handler's Success or
\* Failure; no handler runs, nothing else changes, and the dispatcher goes on
\* serving.
C4_UnknownCommand ==
    [][/\ phase = "running" => phase' = "running"
       /\ \A t \in Tasks, name \in CommandNames : \A a \in ArgsOf(name) :
          (/\ Invoke(t, name, a)
           /\ name \notin {"greet", "get_system_info", "read_file", "write_file"})
          => /\ tasks'[t].pc = "done"
             /\ tasks'[t].cmd = NoHandler
             /\ tasks'[t].result.tag \notin {"Success", "Failure"}
             /\ tasks'[t].result.message \notin HandlerFailureMessages
             /\ tasks'[t].result.message # ""
             /\ \A u \in Tasks \ {t} : tasks'[u] = tasks[u]
             /\ fs' = fs
             /\ phase' = "running"
             /\ dispatcher' = "free"
      ]_vars

C4_Witness ==
    \E t, u \in Tasks :
        /\ Done(t, "delete_file")
        /\ tasks[t].result = NotFound("delete_file")
        /\ Done(u, "greet")

\* No node at p: p itself, or the directory it would be in, does not exist.
NoFileAt(f, p) == KindAt(f, Parent(p)) # "dir" \/ f[p].kind = "absent"

\* C2: read_file of a path where no file exists returns Failure with a
\* non-empty message that carries the I/O error's text; it never returns
\* Success, and it returns (the invocation is done, with that result).
C2_ReadMissing ==
    [][\A t \in Tasks :
          (ReadFileStep(t) /\ NoFileAt(fs, tasks[t].args.path))
          => /\ tasks'[t].pc = "done"
             /\ tasks'[t].result.tag = "Failure"
             /\ tasks'[t].result.message # ""
             /\ tasks'[t].result.message
                  = ReadErrPrefix \o
                    (IF KindAt(fs, Parent(tasks[t].args.path)) = "file"
                     THEN "Not a directory (os error 20)"
                     ELSE "No such file or directory (os error 2)")
      ]_vars

C2_Witness ==
    \E t \in Tasks :
        /\ Done(t, "read_file")
        /\ fs[tasks[t].args.path] = Absent
        /\ tasks[t].result
             = Failure(ReadErrPrefix \o "No such file or directory (os error 2)")

\* C3: write_file to a path whose parent directory does not exist returns
\* Failure with a message, not Success, and creates neither the directory
\* nor the file.
C3_WriteNoParent ==
    /\ [][\A t \in Tasks :
             (WriteFileCreate(t) /\ KindAt(fs, Parent(tasks[t].args.path)) = "absent")
             => /\ tasks'[t].pc = "done"
                /\ tasks'[t].result.tag = "Failure"
                /\ tasks'[t].result.message
                     = WriteErrPrefix \o "No such file or directory (os error 2)"
                /\ fs' = fs
         ]_vars
    /\ [](\A p \in NodePaths :
             KindAt(fs, Parent(p)) = "absent" => fs[p] = Absent)

C3_Witness ==
    \E t \in Tasks :
        /\ Done(t, "write_file")
        /\ tasks[t].args.path = DF
        /\ fs[D] = Absent /\ fs[DF] = Absent
        /\ tasks[t].result
             = Failure(WriteErrPrefix \o "No such file or directory (os error 2)")

\* C1 as stated: a read_file(p) that follows a write_file(p, c), with no
\* write activity on p in between, yields Success(c).
C1_RoundTripAlways ==
    [][\A t \in Tasks :
          (ReadFileStep(t) /\ lastWrite[tasks[t].args.path].seen)
          => tasks'[t].result = Success(lastWrite[tasks[t].args.path].content)
      ]_vars

\* C1, amended: when write_file(p, c) returned Success, no other write_file
\* wrote to p between its opening p and its writing c or since, and the
\* process may read the file, a read_file(p) yields Success(c).
C1_RoundTrip ==
    [][\A t \in Tasks :
          LET w == lastWrite[tasks[t].args.path] IN
          (/\ ReadFileStep(t)
           /\ w.seen /\ w.ok /\ ~w.raced
           /\ fs[tasks[t].args.path].readable)
          => tasks'[t].result = Success(w.content)
      ]_vars

C1_Witness ==
    \E t, u \in Tasks :
        /\ Done(u, "write_file") /\ tasks[u].result = Success(Unit)
        /\ tasks[u].args.content = <<65>>
        /\ Done(t, "read_file") /\ tasks[t].args.path = tasks[u].args.path
        /\ lastWrite[tasks[t].args.path] = Wrote(<<65>>, TRUE, FALSE)
        /\ tasks[t].result = Success(<<65>>)

\* The paths other than p are as they were.
OthersUnchanged(p) == \A q \in NodePaths \ {p} : fs'[q] = fs[q]

\* Invocation t returns in this step.
Returns(t) == tasks[t].pc # "done" /\ tasks'[t].pc = "done"

\* Invocation t (a write_file) has changed the filesystem by the end of this
\* step.
HasChanged(t) == tasks[t].changed \/ fs' # fs

\* C10 as stated: a successful write_file(p, c) leaves exactly c at p and
\* every other path as it was; read_file, greet, get_system_info and a
\* write_file that returns Failure change nothing in the filesystem.
C10_FrameAlways ==
    [][\A t \in Tasks :
          /\ WriteFileWriteAll(t) =>
                /\ fs'[tasks[t].args.path].kind = "file"
                /\ fs'[tasks[t].args.path].data = tasks[t].args.content
                /\ OthersUnchanged(tasks[t].args.path)
          /\ (ReadFileStep(t) \/ GreetStep(t) \/ GetSystemInfoStep(t)) => fs' = fs
          /\ (/\ Returns(t)
              /\ tasks[t].cmd = "write_file"
              /\ tasks'[t].result.tag = "Failure") => ~HasChanged(t)
      ]_vars

\* C10, amended: a successful write_file(p, c) that no other write_file on p
\* has raced leaves exactly c at p, whether or not a file was there; every
\* step of a write_file on p leaves the other paths as they were; read_file,
\* greet, get_system_info and a write_file that fails to open p change
\* nothing; a write_file that fails after opening p has failed in write_all
\* and may have created, truncated or partly written p.
C10_Frame ==
    [][\A t \in Tasks :
          /\ (WriteFileWriteAll(t) /\ ~tasks[t].raced) =>
                /\ fs'[tasks[t].args.path].kind = "file"
                /\ fs'[tasks[t].args.path].data = tasks[t].args.content
          /\ (\/ WriteFileCreate(t)
              \/ WriteFileWriteAll(t)
              \/ \E k \in 0..MaxLen : WriteFileWriteFail(t, k)) =>
                OthersUnchanged(tasks[t].args.path)
          /\ (ReadFileStep(t) \/ GreetStep(t) \/ GetSystemInfoStep(t)) => fs' = fs
          /\ (WriteFileCreate(t) /\ Returns(t)) =>
                /\ tasks'[t].result.tag = "Failure"
                /\ ~HasChanged(t)
          /\ (/\ Returns(t)
              /\ tasks[t].cmd = "write_file"
              /\ tasks'[t].result.tag = "Failure"
              /\ HasChanged(t)) =>
                /\ tasks[t].pc = "opened"
                /\ tasks'[t].result.message
                     = WriteErrPrefix \o "No space left on device (os error 28)"
      ]_vars

C10_Witness ==
    \E t, u \in Tasks :
        /\ Done(t, "write_file") /\ tasks[t].result = Success(Unit)
        /\ lastWrite[tasks[t].args.path] = Wrote(tasks[t].args.content, TRUE, FALSE)
        /\ fs[tasks[t].args.path] = File(tasks[t].args.content, FALSE)
        /\ tasks[t].args.content = <<>>
        /\ Done(u, "write_file") /\ tasks[u].args.path # tasks[t].args.path
        /\ tasks[u].result
             = Failure(WriteErrPrefix \o "No space left on device (os error 28)")
        /\ fs[tasks[u].args.path] = File(<<>>, TRUE)

\* C6: an invocation of read_file or write_file in flight never holds the
\* dispatcher, which goes on accepting invocations (greet and the file
\* commands among them) whenever it is not running a greet or a
\* get_system_info; an invocation of greet or get_system_info in flight is
\* being run by the dispatcher itself, which accepts nothing until it is done.
C6_FileTasksSuspend ==
    \A t \in Tasks :
        InFlight(t) =>
            IF tasks[t].cmd \in FileCommands
            THEN /\ dispatcher # t
                 /\ dispatcher \in
                      {"free"} \cup {u \in Tasks : tasks[u].cmd \notin FileCommands}
                 /\ \A u \in Tasks :
                       (tasks[u].pc = "idle" /\ dispatcher = "free") =>
                          /\ ENABLED Invoke(u, "greet", [name |-> "World"])
                          /\ ENABLED Invoke(u, "get_system_info", [none |-> TRUE])
                          /\ ENABLED Invoke(u, "read_file", [path |-> G])
            ELSE /\ dispatcher = t
                 /\ tasks[t].pc = "pending"
                 /\ \A u \in Tasks : ~ENABLED Invoke(u, "greet", [name |-> "World"])

C6_Witness ==
    /\ tasks["t1"].pc = "opened" /\ tasks["t1"].cmd = "write_file"
    /\ tasks["t2"].pc = "pending" /\ tasks["t2"].cmd = "read_file"
    /\ dispatcher = "free"

\* A CommandResult of a file command: Success of a String (read_file) or of
\* unit (write_file), or Failure of an I/O error's message.
WellFormed_Result(cmd, r) ==
    \/ /\ r.tag = "Success"
       /\ IF cmd = "read_file"
          THEN r.value \in Seq(AsciiBytes) /\ Utf8Valid(r.value)
          ELSE r.value = Unit
    \/ /\ r.tag = "Failure"
       /\ r.message \in HandlerFailureMessages

\* C5: every dispatched read_file or write_file ends with exactly one
\* well-formed result, Success or Failure, at the boundary: the invocation
\* only moves forward (no retry, no cancellation), its result does not change
\* once given, and under fair scheduling it is given.
C5_AlwaysOneResult ==
    /\ [](\A t \in Tasks :
            /\ tasks[t].pc \in {"idle", "pending", "opened", "done"}
            /\ (tasks[t].pc = "done" /\ tasks[t].cmd \in FileCommands) =>
                  WellFormed_Result(tasks[t].cmd, tasks[t].result))
    /\ [][\A t \in Tasks :
            tasks[t].cmd \in FileCommands =>
               /\ tasks[t].pc = "pending" => tasks'[t].pc \in {"pending", "opened", "done"}
               /\ tasks[t].pc = "opened"  => tasks'[t].pc \in {"opened", "done"}
               /\ tasks[t].pc = "done"    => tasks'[t].pc \in {"done", "idle"}
               /\ tasks'[t].pc # "idle" =>
                     /\ tasks'[t].name = tasks[t].name
                     /\ tasks'[t].cmd = tasks[t].cmd
                     /\ tasks'[t].args = tasks[t].args
               /\ (tasks[t].pc = "done" /\ tasks'[t].pc = "done") =>
                     tasks'[t].result = tasks[t].result
               /\ tasks'[t].pc # "done" => tasks'[t].result = NoResult
         ]_vars
    /\ \A t \in Tasks :
          (InFlight(t) /\ tasks[t].cmd \in FileCommands) ~> (tasks[t].pc = "done")

C5_Witness ==
    \E t, u \in Tasks :
        /\ Done(t, "read_file")
        /\ tasks[t].result = Failure(ReadErrPrefix \o "stream did not contain valid UTF-8")
        /\ Done(u, "write_file")
        /\ tasks[u].result
             = Failure(WriteErrPrefix \o "No space left on device (os error 28)")

====
